---------------------------- MODULE Spec2Model ----------------------------
(***************************************************************************)
(* Model of transform_CSVtoANKI.py: the row-to-card transformation         *)
(* (process_row with its helpers and HTML builders) and the per-folder     *)
(* driver (process_folder).                                                *)
(*                                                                         *)
(* Text is modelled as a sequence of characters, each character a          *)
(* one-element token: "a", " ", "<", ...  Three characters have a named    *)
(* token: NBSP (U+00A0), NL (U+000A) and BOM (U+FEFF).  A string literal   *)
(* of the source that holds no user text (a piece of markup) is one        *)
(* token, so a card face is the flat sequence "".join(parts) builds.       *)
(***************************************************************************)
EXTENDS Integers, Sequences, FiniteSets, TLC

VARIABLES
    pc,          \* position of the driver / of the call
    row,         \* the RawRow handed to process_row (None before any call)
    result,      \* what process_row returned last, with its locals
    folder,      \* the *.csv files present in the folder
    pending,     \* sorted(folder.glob("*.csv")) not yet visited
    csv_file,    \* the file of the current loop iteration
    rows,        \* rows of csv_file not yet processed
    idx,         \* enumerate(rows, start=2): number of the next row
    cards,       \* list of (front, back)
    skipped,     \* list of skip records
    rows_seen,
    files_seen,
    out_file,    \* ANKI-IMPORT__<folder>.csv as this run wrote it
    skip_file,   \* SKIPPED__<folder>.csv as this run wrote it
    reads,       \* history: every file read_csv returned, with its rows
    returns      \* history: every value process_row returned to the driver

vars == << pc, row, result, folder, pending, csv_file, rows, idx, cards,
           skipped, rows_seen, files_seen, out_file, skip_file, reads, returns >>

-----------------------------------------------------------------------------
(* Bounds of the model *)

\* longest whitespace run put between two words of an input text
MaxRun == 2
\* most data files in the folder
MaxFiles == 2
\* most data rows read over one run of process_folder
MaxRows == 3

-----------------------------------------------------------------------------
(* Characters and Python's None *)

SP == " "
NBSP == "nbsp"
NL == "\n"
BOM == "bom"

\* Python's None where a text is expected (a one-element sequence that is no text)
None == << "None" >>
\* Python's None where a reason code (a string) is expected
NoReason == "None"

\* the characters str.strip() and str.split() treat as whitespace
Whitespace == { SP, NBSP, NL }

RECURSIVE Flatten(_)
Flatten(ss) == IF ss = << >> THEN << >> ELSE Head(ss) \o Flatten(Tail(ss))

\* s.replace(old, new) for a one-character old and a text new
replace(s, old, new) ==
    Flatten([ i \in 1..Len(s) |-> IF s[i] = old THEN new ELSE << s[i] >> ])

RECURSIVE lstrip(_)
lstrip(s) ==
    IF s = << >> THEN s
    ELSE IF Head(s) \in Whitespace THEN lstrip(Tail(s)) ELSE s

RECURSIVE rstrip(_)
rstrip(s) ==
    IF s = << >> THEN s
    ELSE IF s[Len(s)] \in Whitespace THEN rstrip(SubSeq(s, 1, Len(s) - 1)) ELSE s

strip(s) == rstrip(lstrip(s))

\* s.split(): the maximal runs of non-whitespace characters
RECURSIVE split(_)
split(s) ==
    LET t == lstrip(s)
        ws == { i \in 1..Len(t) : t[i] \in Whitespace }
        n == IF ws = {} THEN Len(t) + 1
             ELSE CHOOSE i \in ws : \A j \in ws : i <= j
    IN IF t = << >> THEN << >>
       ELSE << SubSeq(t, 1, n - 1) >> \o split(SubSeq(t, n, Len(t)))

\* s.split(sep) for a one-character sep: empty pieces are kept
RECURSIVE split_on(_, _)
split_on(s, sep) ==
    LET at == { i \in 1..Len(s) : s[i] = sep }
        n == IF at = {} THEN Len(s) + 1
             ELSE CHOOSE i \in at : \A j \in at : i <= j
    IN IF at = {} THEN << s >>
       ELSE << SubSeq(s, 1, n - 1) >> \o split_on(SubSeq(s, n + 1, Len(s)), sep)

\* sep.join(list)
RECURSIVE join(_, _)
join(sep, list) ==
    IF list = << >> THEN << >>
    ELSE IF Len(list) = 1 THEN list[1]
    ELSE list[1] \o sep \o join(sep, Tail(list))

\* str.lower() on the letters the headers use
lower_char(c) ==
    CASE c = "A" -> "a" [] c = "B" -> "b" [] c = "C" -> "c" [] c = "D" -> "d"
      [] c = "E" -> "e" [] c = "F" -> "f" [] c = "G" -> "g" [] c = "I" -> "i"
      [] c = "N" -> "n" [] c = "O" -> "o" [] c = "Q" -> "q" [] c = "R" -> "r"
      [] c = "S" -> "s" [] c = "T" -> "t" [] c = "U" -> "u" [] c = "W" -> "w"
      [] OTHER -> c

lower(s) == [ i \in 1..Len(s) |-> lower_char(s[i]) ]

\* html.escape(s) with quote=True
escape_char(c) ==
    CASE c = "&" -> << "&", "a", "m", "p", ";" >>
      [] c = "<" -> << "&", "l", "t", ";" >>
      [] c = ">" -> << "&", "g", "t", ";" >>
      [] c = "\"" -> << "&", "q", "u", "o", "t", ";" >>
      [] c = "'" -> << "&", "#", "x", "2", "7", ";" >>
      [] OTHER -> << c >>

html_escape(s) == Flatten([ i \in 1..Len(s) |-> escape_char(s[i]) ])

BR == << "<", "b", "r", ">" >>

ascii_uppercase ==
    << "A", "B", "C", "D", "E", "F", "G", "H", "I", "J", "K", "L", "M",
       "N", "O", "P", "Q", "R", "S", "T", "U", "V", "W", "X", "Y", "Z" >>

-----------------------------------------------------------------------------
(* HELPERS *)

normalize(s) == IF s = None THEN << >> ELSE strip(s)

normkey(k) ==
    LET k1 == lower(normalize(k))
        k2 == replace(k1, BOM, << >>)
        k3 == replace(k2, "_", << SP >>)
    IN join(<< SP >>, split(k3))

\* A RawRow is the ordered mapping csv.DictReader builds: a sequence of
\* << header, value >>.  norm_map is the dict {normkey(k): k for k in row.keys()
\* if k is not None}, a header given by its position: of two headers with the
\* same normalised form the later one stays.
norm_map(r) ==
    LET named == { << i, normkey(r[i][1]) >> : i \in { j \in 1..Len(r) : r[j][1] # None } }
        last(k) == CHOOSE p \in named :
                      p[2] = k /\ \A q \in named : q[2] = k => q[1] <= p[1]
    IN [ k \in { p[2] : p \in named } |-> last(k)[1] ]

pick(r, keys) ==
    LET nm == norm_map(r)
        found == { n \in 1..Len(keys) : normkey(keys[n]) \in DOMAIN nm }
        first == CHOOSE n \in found : \A m \in found : n <= m
    IN IF found = {} THEN None ELSE r[nm[normkey(keys[first])]][2]

\* fault variant of matchkey: whitespace runs are not collapsed
matchkey_no_collapse(s) == replace(normalize(s), NBSP, << SP >>)

matchkey(s) ==
    LET s1 == normalize(s)
        s2 == replace(s1, NBSP, << SP >>)
    IN join(<< SP >>, split(s2))


-----------------------------------------------------------------------------
(* HTML BUILDERS *)

\* the literal pieces of markup, one token each
T_Outer == "<div style='text-align:left;'>"
T_QOpen == "<div style='font-weight:700; margin-bottom:8px;'>"
T_DivOpen == "<div>"
T_DivClose == "</div>"
T_OptOpen == "<div style='margin:2px 0;'>"
T_LetterOpen == "<span style='display:inline-block; width:24px;'>"
T_LetterClose == ".</span>"
T_SpanOpen == "<span>"
T_SpanClose == "</span>"
T_AnsOpen == "<div style='margin-top:4px;'>"
T_CorrectLabel == "<div style='margin-top:8px;'><b>Richtige Antwort:</b> "
T_AnswerLabel == "<div style='margin-top:8px;'><b>Antwort:</b></div>"

\* html.escape(t).replace("\n", "<br>")
escape_br(t) == replace(html_escape(t), NL, BR)

\* one option line of the front: the option text is escaped only
front_option(i, opt) ==
    << T_OptOpen, T_LetterOpen, ascii_uppercase[i], T_LetterClose, T_SpanOpen >>
        \o html_escape(opt) \o << T_SpanClose, T_DivClose >>

build_front_html(question, options) ==
    LET q == escape_br(question)
    IN << T_Outer, T_QOpen >> \o q \o << T_DivClose >>
       \o (IF options # << >>
           THEN << T_DivOpen >>
                \o Flatten([ i \in 1..Len(options) |-> front_option(i, options[i]) ])
                \o << T_DivClose >>
           ELSE << >>)
       \o << T_DivClose >>

build_back_html(correct_letters, correct_texts) ==
    LET letters == join(<< ",", SP >>, [ i \in 1..Len(correct_letters) |-> << correct_letters[i] >> ])
        answers_html == Flatten([ i \in 1..Len(correct_texts) |->
                            << T_AnsOpen >> \o escape_br(correct_texts[i]) \o << T_DivClose >> ])
    IN << T_Outer, T_CorrectLabel >> \o html_escape(letters) \o << T_DivClose >>
       \o answers_html \o << T_DivClose >>

\* the back of a free-text card, built in process_row
free_text_back(correct_raw) ==
    << T_Outer, T_AnswerLabel, T_AnsOpen >> \o escape_br(correct_raw)
        \o << T_DivClose, T_DivClose >>

-----------------------------------------------------------------------------
(* CSV HANDLING: process_row *)

\* the header names process_row asks for
H_Frage == << "F", "r", "a", "g", "e" >>
H_Question == << "Q", "u", "e", "s", "t", "i", "o", "n" >>
H_Antwort(letter) == << "A", "n", "t", "w", "o", "r", "t", SP, letter >>
H_Richtige == << "R", "i", "c", "h", "t", "i", "g", "e", SP,
                 "A", "n", "t", "w", "o", "r", "t" >>

Question(r) == normalize(pick(r, << H_Frage, H_Question >>))
RawOptions(r) ==
    << normalize(pick(r, << H_Antwort("A") >>)), normalize(pick(r, << H_Antwort("B") >>)),
       normalize(pick(r, << H_Antwort("C") >>)), normalize(pick(r, << H_Antwort("D") >>)) >>
CorrectRaw(r) == normalize(pick(r, << H_Richtige >>))

missing_question(question) == question = << >>

NonEmpty(t) == t # << >>
Options(raw_options) == SelectSeq(raw_options, NonEmpty)

\* fault variant of is_free_text: the free-text branch is never taken
is_free_text_never(options) == FALSE

is_free_text(options) == Len(options) = 0

\* fault variant of not_enough_options: one option is taken to be enough
not_enough_options_lt1(options) == Len(options) < 1

not_enough_options(options) == Len(options) < 2

Parts(correct_raw) ==
    LET pieces == split_on(correct_raw, "|")
        stripped == [ i \in 1..Len(pieces) |-> strip(pieces[i]) ]
    IN SelectSeq(stripped, NonEmpty)

\* the dict {matchkey(opt): opt for opt in options}: a later option replaces
\* an earlier one with the same key
option_key_to_text(options) ==
    LET keys == { matchkey(options[i]) : i \in 1..Len(options) }
        last(k) == CHOOSE i \in 1..Len(options) :
                      /\ matchkey(options[i]) = k
                      /\ \A j \in 1..Len(options) : matchkey(options[j]) = k => j <= i
    IN [ k \in keys |-> options[last(k)] ]

correct_keys(parts) == [ i \in 1..Len(parts) |-> matchkey(parts[i]) ]

\* fault variant of any_unmatched: rejects only when no part matches
any_unmatched_all(keys, key_to_text) ==
    \A i \in 1..Len(keys) : keys[i] \notin DOMAIN key_to_text

any_unmatched(keys, key_to_text) ==
    \E i \in 1..Len(keys) : keys[i] \notin DOMAIN key_to_text

\* the orders random.shuffle can leave a list of n elements in
Perms(n) == { p \in [1..n -> 1..n] : \A i, j \in 1..n : p[i] = p[j] => i = j }

\* list(enumerate(options)) after random.shuffle put it in the order perm
shuffle(options, perm) ==
    [ i \in 1..Len(options) |-> << perm[i] - 1, options[perm[i]] >> ]

\* fault variant of is_correct: the option text is compared without its matching key
is_correct_raw(opt_text, correct_key_set) == opt_text \in correct_key_set

is_correct(opt_text, correct_key_set) == matchkey(opt_text) \in correct_key_set

\* the positions (1-based) of the shuffled options the loop flags
RECURSIVE flagged(_, _, _)
flagged(indexed, correct_key_set, i) ==
    IF i > Len(indexed) THEN << >>
    ELSE (IF is_correct(indexed[i][2], correct_key_set) THEN << i >> ELSE << >>)
         \o flagged(indexed, correct_key_set, i + 1)

\* fault variant of correct_letters: the letter of the option's slot before the shuffle
correct_letters_slot(indexed, correct_key_set) ==
    LET f == flagged(indexed, correct_key_set, 1)
    IN [ n \in 1..Len(f) |-> ascii_uppercase[indexed[f[n]][1] + 1] ]

correct_letters(indexed, correct_key_set) ==
    LET f == flagged(indexed, correct_key_set, 1)
    IN [ n \in 1..Len(f) |-> ascii_uppercase[f[n]] ]

\* fault variant of correct_texts: the text option_key_to_text holds for the key
correct_texts_by_key(indexed, correct_key_set) ==
    LET f == flagged(indexed, correct_key_set, 1)
        key_to_text == option_key_to_text([ i \in 1..Len(indexed) |-> indexed[i][2] ])
    IN [ n \in 1..Len(f) |-> key_to_text[matchkey(indexed[f[n]][2])] ]

correct_texts(indexed, correct_key_set) ==
    LET f == flagged(indexed, correct_key_set, 1)
    IN [ n \in 1..Len(f) |-> indexed[f[n]][2] ]

\* what process_row returns, with the line of the return statement taken and
\* its locals: the canonical fields read from the row and what the card was
\* rendered from
Reject(f, reason, line) ==
    [ card |-> None, reason |-> reason, line |-> line, fields |-> f,
      shuffled_options |-> << >>, correct_letters |-> << >>, correct_texts |-> << >> ]

Accept(f, front, back, line, shuffled, letters, texts) ==
    [ card |-> << front, back >>, reason |-> NoReason, line |-> line, fields |-> f,
      shuffled_options |-> shuffled, correct_letters |-> letters, correct_texts |-> texts ]

\* the six canonical fields process_row reads from the row
canonical_fields(r) ==
    [ question |-> Question(r), raw_options |-> RawOptions(r), correct_raw |-> CorrectRaw(r) ]

\* process_row from its first check on, given the fields and the shuffle drawn
classify(f, perm) ==
    LET question == f.question
        correct_raw == f.correct_raw
        options == Options(f.raw_options)
        parts == Parts(correct_raw)
        key_to_text == option_key_to_text(options)
        keys == correct_keys(parts)
        indexed == shuffle(options, perm)
        shuffled_options == [ i \in 1..Len(indexed) |-> indexed[i][2] ]
        correct_key_set == { keys[i] : i \in 1..Len(keys) }
        letters == correct_letters(indexed, correct_key_set)
        texts == correct_texts(indexed, correct_key_set)
    IN IF missing_question(question) THEN Reject(f, "missing_question", 110)
       ELSE IF is_free_text(options)
       THEN (IF correct_raw = << >> THEN Reject(f, "missing_correct_answer", 118)
             ELSE Accept(f, build_front_html(question, << >>), free_text_back(correct_raw),
                         126, << >>, << >>, << >>))
       ELSE IF not_enough_options(options) THEN Reject(f, "not_enough_options", 130)
       ELSE IF correct_raw = << >> THEN Reject(f, "missing_correct_answer", 133)
       ELSE IF parts = << >> THEN Reject(f, "missing_correct_answer", 137)
       ELSE IF any_unmatched(keys, key_to_text) THEN Reject(f, "correct_answer_not_found", 143)
       ELSE IF letters = << >> THEN Reject(f, "correct_answer_not_found", 160)
       ELSE Accept(f, build_front_html(question, shuffled_options),
                   build_back_html(letters, texts), 165, shuffled_options, letters, texts)

process_row(r, perm) == classify(canonical_fields(r), perm)

\* the shuffles a call of process_row can draw for these fields
Shuffles(f) == Perms(Len(Options(f.raw_options)))

\* every return value process_row(r) can produce, over the shuffles
Outcomes(r) ==
    LET f == canonical_fields(r)
    IN { classify(f, perm) : perm \in Shuffles(f) }

-----------------------------------------------------------------------------
(* The rows process_row is applied to *)

\* whitespace runs of regular and non-breaking spaces, up to MaxRun long
RECURSIVE RunsOfLen(_)
RunsOfLen(n) ==
    IF n = 0 THEN { << >> }
    ELSE { << c >> \o r : c \in { SP, NBSP }, r \in RunsOfLen(n - 1) }

Runs == UNION { RunsOfLen(n) : n \in 1..MaxRun }

TwoWords(run) == << "a" >> \o run \o << "b" >>

QuestionTexts == { << SP >>, << "q", NL, "<", "&" >> }
OptionATexts ==
    { << >>, << "<", "a" >>, << "a", NL, "b" >> } \cup { TwoWords(r) : r \in Runs }
OptionBTexts == { << NBSP >>, << SP, "a", NBSP >>, << "b" >>, << "a", SP, "b" >> }
OptionCTexts == { None, << "c" >> }
OptionDTexts == { << >>, << "b" >> }
CorrectTexts ==
    { None, << "|" >>, << "a" >>, << "z" >>, << "<", "a" >>,
      << "a", "|", "b" >>, << "a", "|", "z" >>, << "a", NL, "b" >>,
      << "b", "|", "|", "a", SP, "b" >> }
        \cup { << SP >> \o TwoWords(r) \o << NBSP >> : r \in Runs }

\* the header row as the catalogue files write it
CanonicalRow(q, a, b, c, d, corr) ==
    << << H_Frage, q >>, << H_Antwort("A"), a >>, << H_Antwort("B"), b >>,
       << H_Antwort("C"), c >>, << H_Antwort("D"), d >>, << H_Richtige, corr >> >>

\* header variants: other case, underscores, padding, a byte-order mark, the
\* English question header, an unrelated column and DictReader's None key
VariantRow(q, a, b, c, d, corr) ==
    << << << BOM, "N", "r" >>, << "7" >> >>,
       << << "Q", "U", "E", "S", "T", "I", "O", "N" >>, q >>,
       << << "a", "n", "t", "w", "o", "r", "t", "_", "a" >>, a >>,
       << << SP, "A", "n", "t", "w", "o", "r", "t", SP, SP, "B", SP >>, b >>,
       << << BOM, "A", "N", "T", "W", "O", "R", "T", NBSP, "C" >>, c >>,
       << << "A", "n", "t", "w", "o", "r", "t", "_", "_", "D" >>, d >>,
       << << "r", "i", "c", "h", "t", "i", "g", "e", "_", "a", "n", "t", "w", "o", "r", "t" >>, corr >>,
       << None, << "x" >> >> >>

\* a file without the columns C and D, and a second question column
ShortRow(q, a, b, corr) ==
    << << H_Question, << "e" >> >>, << H_Frage, q >>, << H_Antwort("A"), a >>,
       << H_Antwort("B"), b >>, << H_Richtige, corr >> >>

Rows ==
    { CanonicalRow(q, a, b, c, d, corr) :
        q \in QuestionTexts, a \in OptionATexts, b \in OptionBTexts,
        c \in OptionCTexts, d \in OptionDTexts, corr \in CorrectTexts }
    \cup
    { VariantRow(q, a, b, c, d, corr) :
        q \in { None, << "q" >> }, a \in { << >>, << "a" >> }, b \in { << >>, << "b" >> },
        c \in OptionCTexts, d \in OptionDTexts,
        corr \in { None, << "a" >>, << "z" >> } }
    \cup
    { ShortRow(q, a, b, corr) :
        q \in { << >>, << "q" >> }, a \in { << >>, << "a" >> }, b \in { << >>, << "b" >> },
        corr \in { None, << "a" >>, << "z" >> } }

\* an output file this run has not written
NotWritten == [ written |-> FALSE, header |-> << >>, records |-> << >> ]

\* result before process_row has returned
NoResult == Reject(None, NoReason, 1)

-----------------------------------------------------------------------------
(* SpecRow: process_row applied once to any row of Rows, under any shuffle *)

InitRow ==
    /\ pc = "call"
    /\ row \in Rows
    /\ result = NoResult
    /\ folder = {}
    /\ pending = << >>
    /\ csv_file = None
    /\ rows = << >>
    /\ idx = 2
    /\ cards = << >>
    /\ skipped = << >>
    /\ rows_seen = 0
    /\ files_seen = 0
    /\ out_file = NotWritten
    /\ skip_file = NotWritten
    /\ reads = << >>
    /\ returns = << >>

CallProcessRow ==
    /\ pc = "call"
    /\ result' \in Outcomes(row)
    /\ pc' = "returned"
    /\ UNCHANGED << row, folder, pending, csv_file, rows, idx, cards, skipped,
                    rows_seen, files_seen, out_file, skip_file, reads, returns >>

NextRow == CallProcessRow

SpecRow == InitRow /\ [][NextRow]_vars

-----------------------------------------------------------------------------
(* MAIN: process_folder *)

\* A file name is its reserved prefix ("" for a data file) and its stem: the
\* folder name for the files the tool chain writes, a number n for the data
\* file "k<n>.csv".
FolderName == "UBI_Gesamtfragenkatalog"
OutName == [ prefix |-> "ANKI-IMPORT__", stem |-> FolderName ]
SkipName == [ prefix |-> "SKIPPED__", stem |-> FolderName ]
MasterName == [ prefix |-> "MASTER__", stem |-> FolderName ]
DataName(n) == [ prefix |-> "", stem |-> n ]

\* csv_file.name.startswith(("MASTER__", "SKIPPED__", "ANKI-IMPORT__"))
is_reserved(name) == name.prefix \in { "MASTER__", "SKIPPED__", "ANKI-IMPORT__" }

\* the order of sorted() on the names: upper-case prefixes before "k<n>.csv"
SortKey(name) ==
    CASE name.prefix = "ANKI-IMPORT__" -> << 1, 0 >>
      [] name.prefix = "MASTER__" -> << 2, 0 >>
      [] name.prefix = "SKIPPED__" -> << 3, 0 >>
      [] OTHER -> << 4, name.stem >>

NameBefore(m, n) ==
    \/ SortKey(m)[1] < SortKey(n)[1]
    \/ SortKey(m)[1] = SortKey(n)[1] /\ SortKey(m)[2] < SortKey(n)[2]

\* sorted(folder.glob("*.csv"))
RECURSIVE sorted_glob(_)
sorted_glob(files) ==
    IF files = {} THEN << >>
    ELSE LET m == CHOOSE x \in files : \A y \in files \ { x } : NameBefore(x, y)
         IN << m >> \o sorted_glob(files \ { m })

\* the rows a data file can hold: one of each kind of outcome
SampleRows ==
    { CanonicalRow(<< "q", "1" >>, << "a" >>, << "b" >>, None, << >>, << "b" >>),
      CanonicalRow(<< "q", "2" >>, << >>, << >>, << >>, << >>, << "a", NL, "b" >>),
      CanonicalRow(<< SP >>, << "a" >>, << "b" >>, << >>, << >>, << "a" >>),
      CanonicalRow(<< "q", "4" >>, << "a" >>, << "b" >>, << >>, << >>, << "z" >>),
      VariantRow(<< "q", "5" >>, << "a" >>, << >>, None, << >>, << "a" >>),
      ShortRow(<< "q", "6" >>, << "a" >>, << "b" >>, None) }

\* process_row on each of these rows, worked out once: row |-> its return values
SampleOutcomes == [ r \in SampleRows |-> Outcomes(r) ]

\* the row lists read_csv can return, at most n rows long
RowLists(n) == UNION { [ 1..k -> SampleRows ] : k \in 0..n }

\* fault variant of skip_record: the row number counts from the header row
skip_record_from1(file, i, res, r) ==
    [ file |-> file, row |-> i - 1, reason |-> res.reason,
      question |-> normalize(pick(r, << H_Frage, H_Question >>)) ]

\* the entry appended to skipped
skip_record(file, i, res, r) ==
    [ file |-> file, row |-> i, reason |-> res.reason,
      question |-> normalize(pick(r, << H_Frage, H_Question >>)) ]

\* "if card:" on what process_row returned
has_card(res) == res.card # None

\* fault variant of skipped_after: a row without a question leaves no record
skipped_after_quiet(skipped_now, file, i, res, r) ==
    IF has_card(res) \/ res.reason = "missing_question" THEN skipped_now
    ELSE Append(skipped_now, skip_record(file, i, res, r))

cards_after(cards_now, res) ==
    IF has_card(res) THEN Append(cards_now, res.card) ELSE cards_now

skipped_after(skipped_now, file, i, res, r) ==
    IF has_card(res) THEN skipped_now
    ELSE Append(skipped_now, skip_record(file, i, res, r))

Init ==
    /\ pc = "start"
    /\ row = None
    /\ result = NoResult
    /\ \E n \in 0..MaxFiles,
          other \in { {}, { MasterName }, { OutName, SkipName, MasterName } } :
          folder = { DataName(i) : i \in 1..n } \cup other
    /\ pending = << >>
    /\ csv_file = None
    /\ rows = << >>
    /\ idx = 2
    /\ cards = << >>
    /\ skipped = << >>
    /\ rows_seen = 0
    /\ files_seen = 0
    /\ out_file = NotWritten
    /\ skip_file = NotWritten
    /\ reads = << >>
    /\ returns = << >>

\* lines 170-187: the old output files are deleted, the lists and counters
\* start empty, the folder is listed
Start ==
    /\ pc = "start"
    /\ folder' = folder \ { OutName, SkipName }
    /\ cards' = << >>
    /\ skipped' = << >>
    /\ rows_seen' = 0
    /\ files_seen' = 0
    /\ pending' = sorted_glob(folder')
    /\ pc' = "files"
    /\ UNCHANGED << row, result, csv_file, rows, idx, out_file, skip_file, reads, returns >>

\* lines 187-189: a file of the tool chain is passed over
SkipFile ==
    /\ pc = "files"
    /\ pending # << >>
    /\ is_reserved(Head(pending))
    /\ csv_file' = Head(pending)
    /\ pending' = Tail(pending)
    /\ UNCHANGED << pc, row, result, folder, rows, idx, cards, skipped,
                    rows_seen, files_seen, out_file, skip_file, reads, returns >>

\* lines 187-194: a data file is read
ReadFile ==
    /\ pc = "files"
    /\ pending # << >>
    /\ ~ is_reserved(Head(pending))
    /\ csv_file' = Head(pending)
    /\ pending' = Tail(pending)
    /\ files_seen' = files_seen + 1
    /\ \E rs \in RowLists(MaxRows - rows_seen) :
          /\ rows' = rs
          /\ reads' = Append(reads, [ file |-> Head(pending), rows |-> rs ])
          /\ pc' = IF rs = << >> THEN "files" ELSE "rows"
    /\ idx' = 2
    /\ UNCHANGED << row, result, folder, cards, skipped, rows_seen,
                    out_file, skip_file, returns >>

\* lines 194-206: one row of the file
ProcessRow ==
    /\ pc = "rows"
    /\ rows # << >>
    /\ rows_seen' = rows_seen + 1
    /\ row' = Head(rows)
    /\ result' \in SampleOutcomes[Head(rows)]
    /\ cards' = cards_after(cards, result')
    /\ skipped' = skipped_after(skipped, csv_file, idx, result', Head(rows))
    /\ idx' = idx + 1
    /\ rows' = Tail(rows)
    /\ returns' = Append(returns, result')
    /\ pc' = IF Tail(rows) = << >> THEN "files" ELSE "rows"
    /\ UNCHANGED << folder, pending, csv_file, files_seen, out_file, skip_file, reads >>

\* lines 208-228: the cards are written, and the skip report if there is any
WriteOutputs ==
    /\ pc = "files"
    /\ pending = << >>
    /\ out_file' = [ written |-> TRUE, header |-> << >>, records |-> cards ]
    /\ skip_file' = IF skipped # << >>
                    THEN [ written |-> TRUE,
                           header |-> << "file", "row", "reason", "question" >>,
                           records |-> skipped ]
                    ELSE NotWritten
    /\ folder' = folder \cup { OutName } \cup (IF skipped # << >> THEN { SkipName } ELSE {})
    /\ pc' = "done"
    /\ UNCHANGED << row, result, pending, csv_file, rows, idx, cards, skipped,
                    rows_seen, files_seen, reads, returns >>

Next == Start \/ SkipFile \/ ReadFile \/ ProcessRow \/ WriteOutputs

Spec == Init /\ [][Next]_vars

-----------------------------------------------------------------------------
(* Reading a card face back: what the flat HTML shows *)

RECURSIVE Ascending(_)
Ascending(S) ==
    IF S = {} THEN << >>
    ELSE LET m == CHOOSE i \in S : \A j \in S : i <= j
         IN << m >> \o Ascending(S \ { m })

\* the tokens of s from position p up to the next token close
TextFrom(s, p, close) ==
    LET e == CHOOSE i \in p..Len(s) : s[i] = close /\ \A j \in p..(i - 1) : s[j] # close
    IN SubSeq(s, p, e - 1)

\* the question line of a front
FrontQuestion(front) == TextFrom(front, 3, T_DivClose)

\* the option lines of a front, in display order: << letter, text as embedded >>
FrontItems(front) ==
    LET at == Ascending({ i \in 1..Len(front) : front[i] = T_LetterOpen })
    IN [ n \in 1..Len(at) |-> << front[at[n] + 1], TextFrom(front, at[n] + 4, T_SpanClose) >> ]

IsLetter(t) == t \notin { ",", SP }

\* the letters a multiple-choice back lists as correct, in the order listed
BackLetters(back) == SelectSeq(TextFrom(back, 3, T_DivClose), IsLetter)

\* the answer blocks of a back, in order, as embedded
BackTexts(back) ==
    LET at == Ascending({ i \in 1..Len(back) : back[i] = T_AnsOpen })
    IN [ n \in 1..Len(at) |-> TextFrom(back, at[n] + 1, T_DivClose) ]

Range(s) == { s[i] : i \in 1..Len(s) }

-----------------------------------------------------------------------------
(* State functions of a returned call *)

Returned == pc = "returned"
IsCard == result.card # None
Front == result.card[1]
Back == result.card[2]

\* the canonical fields the call read from its row
TheQuestion == result.fields.question
TheCorrectRaw == result.fields.correct_raw
Opts == Options(result.fields.raw_options)
OptKeys == { matchkey(Opts[i]) : i \in 1..Len(Opts) }
PartKeys == { matchkey(p) : p \in Range(Parts(TheCorrectRaw)) }

\* the options whose matching key is in the correct-part key set
CorrectOptions == { o \in Range(Opts) : matchkey(o) \in PartKeys }

\* the display positions whose option has its matching key in the key set
CorrectPositions ==
    { i \in 1..Len(result.shuffled_options) : matchkey(result.shuffled_options[i]) \in PartKeys }

\* s and t hold the same elements the same number of times
SameBag(s, t) ==
    /\ Len(s) = Len(t)
    /\ \A x \in Range(s) \cup Range(t) :
          Cardinality({ i \in 1..Len(s) : s[i] = x }) = Cardinality({ i \in 1..Len(t) : t[i] = x })

-----------------------------------------------------------------------------
(* Properties of process_row, checked under SpecRow *)

\* the set of correct texts the back shows equals the correct options, as embedded
BackShowsCorrectOptions ==
    /\ IsCard
    /\ Range(BackTexts(Back)) = { escape_br(o) : o \in CorrectOptions }

\* C2 as stated: with at least 2 non-empty options and a correct-answer set
\* matching at least one option, process_row always returns a card whose set of
\* correct texts on the back equals, under every shuffle, the set of options
\* whose matching key is in the correct-part key set.
C2_AsStated ==
    (Returned /\ Len(Opts) >= 2 /\ PartKeys \cap OptKeys # {}) => BackShowsCorrectOptions

\* C2 (amended): with a non-empty question, at least 2 non-empty options and a
\* non-empty correct-part list every key of which is an option key,
\* process_row always returns a card whose set of correct texts on the back
\* equals, under every shuffle, the set of options whose matching key is in the
\* correct-part key set.
C2_CardShowsCorrectTexts ==
    (Returned /\ TheQuestion # << >> /\ Len(Opts) >= 2
              /\ PartKeys # {} /\ PartKeys \subseteq OptKeys) => BackShowsCorrectOptions

\* a card of four shuffled options, two of them correct with different texts
\* for one matching key, a third one not correct
C2_Witness ==
    /\ Returned /\ IsCard /\ Len(Opts) = 4
    /\ result.shuffled_options # Opts
    /\ Cardinality(CorrectOptions) = 2
    /\ Cardinality({ matchkey(o) : o \in CorrectOptions }) = 1
    /\ Range(BackTexts(Back)) = { escape_br(o) : o \in CorrectOptions }

\* C3 as stated: every row whose correct-answer parts contain a matching key
\* absent from the option key set is rejected with correct_answer_not_found.
C3_AsStated ==
    (Returned /\ PartKeys \ OptKeys # {}) => result.reason = "correct_answer_not_found"

\* C3 (amended): every row with a non-empty question and at least two non-empty
\* options whose correct-answer parts contain a matching key absent from the
\* option key set is rejected with correct_answer_not_found (at the check
\* before the shuffle), however many other parts matched.
C3_UnmatchedPartRejects ==
    (Returned /\ TheQuestion # << >> /\ Len(Opts) >= 2 /\ PartKeys \ OptKeys # {})
        => (result.card = None /\ result.reason = "correct_answer_not_found"
            /\ result.line = 143)

\* a rejected row of which one part matches an option and another does not
C3_Witness ==
    /\ Returned /\ TheQuestion # << >> /\ Len(Opts) >= 2
    /\ PartKeys \cap OptKeys # {} /\ PartKeys \ OptKeys # {}
    /\ result.reason = "correct_answer_not_found"

\* C4: on a multiple-choice card the letters A, B, C, ... prefix the shuffled
\* options in display order, and the letters the back lists are exactly the
\* letters prefixing, on the front, the options whose matching key is in the
\* correct-part key set, in ascending display position; under every shuffle.
C4_LettersFollowDisplayOrder ==
    (Returned /\ result.line = 165) =>
        LET items == FrontItems(Front)
            shown == result.shuffled_options
            at == Ascending(CorrectPositions)
        IN /\ SameBag(shown, Opts)
           /\ Len(items) = Len(shown)
           /\ \A i \in 1..Len(items) :
                 items[i] = << ascii_uppercase[i], html_escape(shown[i]) >>
           /\ BackLetters(Back) = [ n \in 1..Len(at) |-> items[at[n]][1] ]

\* a card whose options were reordered, with two correct letters that are not
\* the first two
C4_Witness ==
    /\ Returned /\ result.line = 165
    /\ result.shuffled_options # Opts
    /\ Len(BackLetters(Back)) = 2
    /\ BackLetters(Back) # << "A", "B" >>
    /\ 1 \notin CorrectPositions

\* what a free-text card is: no lettered option on the front, the answer label
\* and one answer block on the back
IsFreeTextCard ==
    /\ IsCard /\ result.line = 126
    /\ FrontItems(Front) = << >>
    /\ Back[2] = T_AnswerLabel
    /\ Len(BackTexts(Back)) = 1

\* C5 as stated: for every row with zero non-empty options the result is a
\* free-text card or a rejection with missing_correct_answer, never
\* not_enough_options or correct_answer_not_found.
C5_AsStated ==
    (Returned /\ Len(Opts) = 0) =>
        /\ IsFreeTextCard \/ (result.card = None /\ result.reason = "missing_correct_answer")
        /\ result.reason \notin { "not_enough_options", "correct_answer_not_found" }

\* C5 (amended): for every row with zero non-empty options the result is a
\* rejection with missing_question when the question is empty, and otherwise
\* a free-text card or a rejection with missing_correct_answer; it is never
\* not_enough_options or correct_answer_not_found.
C5_NoOptionsOutcome ==
    (Returned /\ Len(Opts) = 0) =>
        /\ IF TheQuestion = << >>
           THEN result.card = None /\ result.reason = "missing_question"
           ELSE IF TheCorrectRaw = << >>
           THEN result.card = None /\ result.reason = "missing_correct_answer"
           ELSE IsFreeTextCard
        /\ result.reason \notin { "not_enough_options", "correct_answer_not_found" }

\* a free-text card from a row whose option columns hold only whitespace or
\* are missing, and whose answer matches no option
C5_Witness ==
    /\ Returned /\ Len(Opts) = 0 /\ IsFreeTextCard
    /\ \E i \in 1..Len(row) : row[i][2] = << NBSP >>
    /\ PartKeys # {}

\* C6: the rejection checks apply in the order empty question, option count,
\* empty correct-answer field, empty part list, unmatched part, and the first
\* that fails gives the reason: an empty question gives missing_question
\* whatever the other fields, and a non-empty question with exactly one
\* non-empty option gives not_enough_options whatever the correct answer.
C6_FirstFailingCheck ==
    Returned =>
        /\ TheQuestion = << >> => result.reason = "missing_question"
        /\ (TheQuestion # << >> /\ Len(Opts) = 1) => result.reason = "not_enough_options"
        /\ (TheQuestion # << >> /\ Len(Opts) >= 2 /\ TheCorrectRaw = << >>)
              => (result.reason = "missing_correct_answer" /\ result.line = 133)
        /\ (TheQuestion # << >> /\ Len(Opts) >= 2 /\ TheCorrectRaw # << >>
                /\ Parts(TheCorrectRaw) = << >>)
              => (result.reason = "missing_correct_answer" /\ result.line = 137)
        /\ (TheQuestion # << >> /\ Len(Opts) >= 2 /\ PartKeys \ OptKeys # {})
              => result.reason = "correct_answer_not_found"
        /\ result.reason # NoReason => result.card = None

\* one non-empty option that is the correct answer, rejected for its count
C6_Witness ==
    /\ Returned /\ TheQuestion # << >> /\ Len(Opts) = 1
    /\ PartKeys # {} /\ PartKeys \subseteq OptKeys
    /\ result.reason = "not_enough_options"

\* C7: all user-supplied text in a card (the question, every option text on
\* the front, every correct text or the free-text answer on the back) is
\* HTML-escaped and then has every newline turned into <br>, so that no
\* user-supplied newline is left in the front or the back.
C7_EscapedAndBroken ==
    (Returned /\ IsCard) =>
        /\ FrontQuestion(Front) = escape_br(TheQuestion)
        /\ LET items == FrontItems(Front)
           IN /\ Len(items) = Len(result.shuffled_options)
              /\ \A i \in 1..Len(items) : items[i][2] = escape_br(result.shuffled_options[i])
        /\ BackTexts(Back) =
              (IF result.line = 126 THEN << escape_br(TheCorrectRaw) >>
               ELSE [ i \in 1..Len(result.correct_texts) |-> escape_br(result.correct_texts[i]) ])
        /\ NL \notin Range(Front) \cup Range(Back)

\* the words of a text: its maximal runs of characters other than the regular
\* and the non-breaking space
RECURSIVE WordsOf(_)
WordsOf(s) ==
    LET blank == { SP, NBSP }
        lead == { i \in 1..Len(s) : \A j \in 1..i : s[j] \in blank }
        t == SubSeq(s, Cardinality(lead) + 1, Len(s))
        stop == { i \in 1..Len(t) : t[i] \in blank }
        n == IF stop = {} THEN Len(t) + 1 ELSE CHOOSE i \in stop : \A j \in stop : i <= j
    IN IF t = << >> THEN << >>
       ELSE << SubSeq(t, 1, n - 1) >> \o WordsOf(SubSeq(t, n, Len(t)))

\* two texts that differ at most by non-breaking against regular spaces, by the
\* length of their whitespace runs and by surrounding whitespace
SameWords(s, t) == WordsOf(s) # << >> /\ WordsOf(s) = WordsOf(t)

\* the option texts as the row holds them, before any trimming
RawOptionTexts ==
    { pick(row, << H_Antwort(x) >>) : x \in { "A", "B", "C", "D" } } \ { None }

\* the pieces of the correct-answer field between the | characters, untrimmed
RawPieces ==
    LET raw == pick(row, << H_Richtige >>)
    IN IF raw = None THEN {} ELSE Range(split_on(raw, "|"))

\* C8: a correct-answer part and an option text that differ only by
\* non-breaking against regular spaces, by the length of whitespace runs or by
\* surrounding whitespace have equal matching keys, so the part is accepted
\* (a rejection for an unmatched part is due to another part) and on a card
\* that option is flagged correct; the card shows the option's own trimmed
\* text, on the front and on the back, not the key.
C8_KeysMatchTextsShown ==
    Returned => \A o \in RawOptionTexts, p \in RawPieces :
        SameWords(o, p) =>
            /\ matchkey(o) = matchkey(p)
            /\ matchkey(p) \in OptKeys
            /\ result.line = 143 => \E q \in RawPieces : q # p /\ matchkey(q) \notin OptKeys
            /\ result.line = 165 =>
                  \A i \in 1..Len(result.shuffled_options) :
                      result.shuffled_options[i] = normalize(o) =>
                          /\ ascii_uppercase[i] \in Range(BackLetters(Back))
                          /\ FrontItems(Front)[i][2] = html_escape(normalize(o))
                          /\ escape_br(normalize(o)) \in Range(BackTexts(Back))

\* a card with an option holding a run of spaces, picked by a part written
\* with other spaces and padding, and shown as the option wrote it
C8_Witness ==
    /\ Returned /\ result.line = 165
    /\ \E o \in RawOptionTexts, p \in RawPieces :
          /\ SameWords(o, p) /\ normalize(o) # strip(p)
          /\ normalize(o) # matchkey(o)
          /\ \E i \in 1..Len(result.shuffled_options) :
                /\ result.shuffled_options[i] = normalize(o)
                /\ ascii_uppercase[i] \in Range(BackLetters(Back))
                /\ FrontItems(Front)[i][2] # html_escape(matchkey(o))
                /\ escape_br(matchkey(o)) \notin Range(BackTexts(Back))

\* C10: the re-check after the shuffle never rejects: once every correct-part
\* key is an option key, some shuffled option is flagged under every shuffle,
\* and the return at line 160 is not taken.
C10_RecheckUnreachable ==
    Returned =>
        /\ result.line # 160
        /\ (TheQuestion # << >> /\ Len(Opts) >= 2 /\ PartKeys # {}
                /\ PartKeys \subseteq OptKeys)
              => (result.line = 165 /\ result.correct_letters # << >>)

\* a card whose correct part is not the text of any option, only its key is
C10_Witness ==
    /\ Returned /\ result.line = 165
    /\ Range(Parts(TheCorrectRaw)) \cap Range(Opts) = {}
    /\ result.correct_letters # << >>

-----------------------------------------------------------------------------
(* Properties of process_folder, checked under Spec *)

\* the rows of the files read so far, in reading order, each with its file and
\* its place k in the file (the k-th data row)
RECURSIVE RowsRead(_)
RowsRead(rd) ==
    IF rd = << >> THEN << >>
    ELSE LET last == rd[Len(rd)]
         IN RowsRead(SubSeq(rd, 1, Len(rd) - 1))
            \o [ k \in 1..Len(last.rows) |-> [ file |-> last.file, k |-> k, row |-> last.rows[k] ] ]

\* the calls of process_row so far that returned a card / a rejection
AcceptedCalls == Ascending({ i \in 1..Len(returns) : returns[i].card # None })
RejectedCalls == Ascending({ i \in 1..Len(returns) : returns[i].reason # NoReason })

ReasonCodes ==
    { "missing_question", "missing_correct_answer", "not_enough_options",
      "correct_answer_not_found" }

\* C1: process_row returns (card, None) or (None, reason), exactly one of the
\* two non-null, and process_folder appends one entry for the row to exactly
\* one of cards and skipped: at any time rows_seen = len(cards) + len(skipped),
\* every row read is processed or still waiting, none dropped or counted twice.
C1_OneEntryPerRow ==
    /\ rows_seen = Len(cards) + Len(skipped)
    /\ rows_seen = Len(returns)
    /\ \A i \in 1..Len(returns) :
          /\ (returns[i].card = None) # (returns[i].reason = NoReason)
          /\ returns[i] \in SampleOutcomes[RowsRead(reads)[i].row]
    /\ Len(cards) = Len(AcceptedCalls)
    /\ Len(skipped) = Len(RejectedCalls)
    /\ Len(AcceptedCalls) + Len(RejectedCalls) = Len(returns)
    /\ Len(RowsRead(reads)) = rows_seen + Len(rows)
    /\ pc \in { "files", "done" } => rows = << >>

\* a finished run over three rows, two of them cards and one skipped
C1_Witness ==
    /\ pc = "done"
    /\ rows_seen = 3
    /\ Len(cards) = 2
    /\ Len(skipped) = 1
    /\ out_file.written /\ skip_file.written

\* C9: every rejected row has exactly one skip record, with its file name, the
\* row number k+1 for the k-th data row of that file (from 2 on), a reason of
\* the fixed set and the row's question text; cards and skipped are both in
\* file-then-row processing order.
C9_SkipRecordsAudit ==
    LET read == RowsRead(reads)
    IN /\ skipped = [ n \in 1..Len(RejectedCalls) |->
                        [ file |-> read[RejectedCalls[n]].file,
                          row |-> read[RejectedCalls[n]].k + 1,
                          reason |-> returns[RejectedCalls[n]].reason,
                          question |-> returns[RejectedCalls[n]].fields.question ] ]
       /\ cards = [ n \in 1..Len(AcceptedCalls) |-> returns[AcceptedCalls[n]].card ]
       /\ \A n \in 1..Len(skipped) :
             skipped[n].reason \in ReasonCodes /\ skipped[n].row >= 2
       /\ \A m, n \in 1..Len(skipped) :
             m < n => \/ NameBefore(skipped[m].file, skipped[n].file)
                      \/ skipped[m].file = skipped[n].file /\ skipped[m].row < skipped[n].row
       /\ \A m, n \in 1..Len(reads) : m < n => NameBefore(reads[m].file, reads[n].file)

\* a finished run that skipped the second data row of the first file and the
\* first data row of the second file
C9_Witness ==
    /\ pc = "done"
    /\ Len(cards) = 1
    /\ Len(skipped) = 2
    /\ skipped[1].file = DataName(1) /\ skipped[1].row = 3
    /\ skipped[2].file = DataName(2) /\ skipped[2].row = 2
    /\ skipped[1].question # skipped[2].question
    /\ skip_file.records = skipped

=============================================================================
